---- MODULE Spec2Model ----
(***************************************************************************)
(* Traffic aggregation of wb-access-logs (the per-minute geo script):      *)
(* main scans a directory for access.log* files, sorts them, and feeds     *)
(* each file through processLogFile, whose readline 'line' listener is an  *)
(* async function.  The event emitter does not wait for the promise an     *)
(* async listener returns, so a listener that reaches `await               *)
(* geoip.lookup(ip)` is suspended and the next 'line' (or 'close') event   *)
(* is delivered while it is in flight.  The model therefore splits the     *)
(* listener at its single await: OnLine is the synchronous part up to the  *)
(* await (the whole listener when it returns early or hits the cache), and *)
(* LookupComplete is the continuation after the await.                     *)
(***************************************************************************)
EXTENDS Integers, Sequences, FiniteSets, TLC

(***************************************************************************)
(* Bounds of the model.                                                    *)
(***************************************************************************)
\* directory entries offered to main
MaxFiles == 2
\* 'line' events delivered over the whole run
MaxLines == 2

(***************************************************************************)
(* Strings that the code takes apart or orders are sequences of            *)
(* characters; CharCode gives the UTF-16 code unit that Array.prototype    *)
(* .sort() compares.  The token "access.log" stands for those ten          *)
(* characters (it orders by its first one) and "error.log" likewise.       *)
(***************************************************************************)
CharCode(c) ==
    CASE c = "-" -> 45
      [] c = "." -> 46
      [] c = "0" -> 48
      [] c = "1" -> 49
      [] c = "2" -> 50
      [] c = "3" -> 51
      [] c = "4" -> 52
      [] c = "5" -> 53
      [] c = "6" -> 54
      [] c = "7" -> 55
      [] c = "8" -> 56
      [] c = "9" -> 57
      [] c = ":" -> 58
      [] c = "N" -> 78
      [] c = "T" -> 84
      [] c = "a" -> 97
      [] c = "access.log" -> 97
      [] c = "error.log" -> 101

\* the default comparison of Array.prototype.sort(): code unit by code unit,
\* a proper prefix first
RECURSIVE LexLess(_, _)
LexLess(a, b) ==
    IF a = <<>> THEN b # <<>>
    ELSE IF b = <<>> THEN FALSE
    ELSE IF Head(a) = Head(b) THEN LexLess(Tail(a), Tail(b))
    ELSE CharCode(Head(a)) < CharCode(Head(b))

\* the least element of a non-empty set of strings
LexMin(S) == CHOOSE a \in S : \A b \in S \ {a} : LexLess(a, b)

\* [...S].sort()
RECURSIVE SortStrings(_)
SortStrings(S) ==
    IF S = {} THEN <<>>
    ELSE <<LexMin(S)>> \o SortStrings(S \ {LexMin(S)})

(***************************************************************************)
(* Maps are JavaScript objects used as dictionaries: a function whose      *)
(* domain is the set of keys present.                                      *)
(***************************************************************************)
EmptyMap == [k \in {} |-> 0]

\* m[k] = (m[k] || 0) + 1
Inc(m, k) ==
    IF k \in DOMAIN m THEN [m EXCEPT ![k] = @ + 1] ELSE m @@ (k :> 1)

\* m[k] || 0
Get(m, k) == IF k \in DOMAIN m THEN m[k] ELSE 0

RECURSIVE SumOver(_, _)
SumOver(m, K) ==
    IF K = {} THEN 0
    ELSE LET k == CHOOSE x \in K : TRUE IN m[k] + SumOver(m, K \ {k})

\* the sum of a map's values
SumMap(m) == SumOver(m, DOMAIN m)

(***************************************************************************)
(* Input universe.  A line is the tuple of fields LOG_PATTERN captures;    *)
(* a field that is absent from the text is the empty string.  The text in  *)
(* the brackets is its lexical shape plus the captured fields; calendar    *)
(* fields are drawn in range, where `new Date(y, m, d, h, min, 0, 0)`      *)
(* keeps them as given.                                                    *)
(***************************************************************************)
IPs == {"1.2.3.4", "5.6.7.8"}

\* tokens made of decimal digits only
DigitTokens == {"200", "404", "512"}

\* what the tokens denote as numbers (parseInt(size, 10))
ParseInt(tok) ==
    CASE tok = "200" -> 200
      [] tok = "404" -> 404
      [] tok = "512" -> 512

\* "dmy" is text of the shape \d+/\w+/\d+:\d+:\d+:\d+ [+-]\d+ ; "other" is
\* any other text without a closing bracket
DateTimeTexts ==
    [shape : {"dmy"}, day : {1}, mon : {"Jan", "Foo"}, year : {2025},
     hour : {0}, minute : {0, 1}, second : {12}]
    \cup
    [shape : {"other"}, day : {0}, mon : {""}, year : {0},
     hour : {0}, minute : {0}, second : {0}]

Lines ==
    { l \in [ip : IPs, datetime : DateTimeTexts,
             status : {"200", "404", ""}, size : {"512", "-"}] :
        \* well-formed lines: each client sends one kind of request, in
        \* either minute
        \/ /\ l.datetime.shape = "dmy" /\ l.datetime.mon = "Jan"
           /\ \/ l.ip = "1.2.3.4" /\ l.status = "200" /\ l.size = "512"
              \/ l.ip = "5.6.7.8" /\ l.status = "404" /\ l.size = "-"
        \* a month that is no month, text that is no timestamp, no status
        \/ /\ l.datetime.shape = "dmy" /\ l.datetime.mon = "Foo"
           /\ l.datetime.minute = 0
           /\ l.ip = "1.2.3.4" /\ l.status = "200" /\ l.size = "512"
        \/ /\ l.datetime.shape = "other"
           /\ l.ip = "1.2.3.4" /\ l.status = "200" /\ l.size = "512"
        \/ /\ l.datetime.shape = "dmy" /\ l.datetime.mon = "Jan"
           /\ l.datetime.minute = 0
           /\ l.ip = "1.2.3.4" /\ l.status = "" /\ l.size = "512" }

\* directory entries: access.log, access.log.1, error.log
FileNames ==
    { <<"access.log">>, <<"access.log", ".", "1">>, <<"error.log">> }

\* what a lookup settles with: it throws, resolves to null, or resolves to
\* an object whose country is one of these codes
Countries == {"US", "BR"}
LookupResults == {"throw", "null"} \cup Countries

(***************************************************************************)
(* The parser and the bucketer.                                            *)
(***************************************************************************)
\* line.match(LOG_PATTERN): the ip, the bracketed text, the request, a status
\* of digits, a size of digits or "-", and the two quoted fields
LOG_PATTERN(line) ==
    /\ line.ip \in IPs
    /\ line.datetime.shape \in {"dmy", "other"}
    /\ line.status \in DigitTokens
    /\ line.size \in DigitTokens \cup {"-"}

months ==
    [m \in {"Jan", "Feb", "Mar", "Apr", "May", "Jun",
            "Jul", "Aug", "Sep", "Oct", "Nov", "Dec"} |->
        CASE m = "Jan" -> 0 [] m = "Feb" -> 1 [] m = "Mar" -> 2
          [] m = "Apr" -> 3 [] m = "May" -> 4 [] m = "Jun" -> 5
          [] m = "Jul" -> 6 [] m = "Aug" -> 7 [] m = "Sep" -> 8
          [] m = "Oct" -> 9 [] m = "Nov" -> 10 [] m = "Dec" -> 11]

\* A value of parseDateTime: null, or a Date.  A Date whose month argument
\* was undefined is an Invalid Date (its time value is NaN): valid = FALSE.
InvalidDate ==
    [null |-> FALSE, valid |-> FALSE, year |-> 0, month |-> 0, date |-> 0,
     hours |-> 0, minutes |-> 0]

NullDate == [InvalidDate EXCEPT !.null = TRUE]

\* parseDateTime(dtStr): null when the regular expression does not match;
\* otherwise new Date(year, months[monthStr], day, hour, minute, 0, 0), which
\* is an Invalid Date when monthStr is not a key of months
parseDateTime(dtStr) ==
    IF dtStr.shape # "dmy" THEN NullDate
    ELSE IF dtStr.mon \notin DOMAIN months THEN InvalidDate
    ELSE [null |-> FALSE, valid |-> TRUE, year |-> dtStr.year,
          month |-> months[dtStr.mon], date |-> dtStr.day,
          hours |-> dtStr.hour, minutes |-> dtStr.minute]

\* new Date(getFullYear(), getMonth(), getDate(), getHours(), getMinutes(), 0, 0)
truncateToMinute(date) ==
    IF date.valid
    THEN [null |-> FALSE, valid |-> TRUE, year |-> date.year,
          month |-> date.month, date |-> date.date, hours |-> date.hours,
          minutes |-> date.minutes]
    ELSE InvalidDate

DigitChar(d) == <<"0", "1", "2", "3", "4", "5", "6", "7", "8", "9">>[d + 1]

\* n.toString() for a non-negative integer
RECURSIVE NumToString(_)
NumToString(n) ==
    IF n < 10 THEN <<DigitChar(n)>>
    ELSE NumToString(n \div 10) \o <<DigitChar(n % 10)>>

\* String(NaN)
NaNString == <<"N", "a", "N">>

\* s.padStart(2, '0')
pad(s) == IF Len(s) < 2 THEN <<"0">> \o s ELSE s

\* `${year}-${pad(month + 1)}-${pad(date)}T${pad(hours)}:${pad(minutes)}:00`;
\* every getter of an Invalid Date is NaN, and NaN + 1 is NaN
formatMinuteKey(date) ==
    LET str(n) == IF date.valid THEN NumToString(n) ELSE NaNString
    IN  str(date.year) \o <<"-">> \o pad(str(date.month + 1)) \o <<"-">>
        \o pad(str(date.date)) \o <<"T">> \o pad(str(date.hours)) \o <<":">>
        \o pad(str(date.minutes)) \o <<":", "0", "0">>

(***************************************************************************)
(* State.                                                                  *)
(***************************************************************************)
VARIABLES
    pc,             \* where main is: "start", "files", "written", "exit1"
    files,          \* main's sorted list of log files
    fileIdx,        \* position in files of the file being read
    lineCount,      \* processLogFile's lineCount for the file being read
    parsedCount,    \* processLogFile's parsedCount for the file being read
    totalLines,     \* main's totalLines
    totalParsed,    \* main's totalParsed
    minuteData,     \* minute key -> [requests, bytes, countries, status_codes]
    countryTotals,  \* country -> count
    statusTotals,   \* status -> count
    ipCache,        \* ip -> country
    pending,        \* listeners suspended at `await geoip.lookup(ip)`
    output,         \* what writeFileSync put in the output file
    lookups,        \* history: ip -> number of geoip.lookup(ip) calls made
    lastLine,       \* history: the line of the latest 'line' event
    lastResult,     \* history: what the lookup that settled last settled with
    parsedLines     \* history: line -> number of times it was parsed

vars ==
    <<pc, files, fileIdx, lineCount, parsedCount, totalLines, totalParsed,
      minuteData, countryTotals, statusTotals, ipCache, pending, output,
      lookups, lastLine, lastResult, parsedLines>>

\* the output file does not exist
NoOutput == [written |-> FALSE]

\* no 'line' event yet
NoLine ==
    [ip |-> "", status |-> "", size |-> "",
     datetime |-> [shape |-> "none", day |-> 0, mon |-> "", year |-> 0,
                   hour |-> 0, minute |-> 0, second |-> 0]]

Init ==
    /\ pc = "start"
    /\ files = <<>>
    /\ fileIdx = 0
    /\ lineCount = 0
    /\ parsedCount = 0
    /\ totalLines = 0
    /\ totalParsed = 0
    /\ minuteData = EmptyMap
    /\ countryTotals = EmptyMap
    /\ statusTotals = EmptyMap
    /\ ipCache = EmptyMap
    /\ pending = {}
    /\ output = NoOutput
    /\ lookups = EmptyMap
    /\ lastLine = NoLine
    /\ lastResult = ""
    /\ parsedLines = EmptyMap

(***************************************************************************)
(* main, up to the file loop.                                              *)
(***************************************************************************)
\* f.startsWith('access.log')
StartsWithAccessLog(f) == Head(f) = "access.log"

\* readdirSync(logDir).filter(...).map(f => path.join(logDir, f)).sort():
\* the common directory prefix does not change the order
LogFiles(dir) == SortStrings({f \in dir : StartsWithAccessLog(f)})

\* Scan without the `files.length === 0` exit
ScanWithoutExit(dir) ==
    /\ pc = "start"
    /\ files' = LogFiles(dir)
    /\ pc' = "files"
    /\ fileIdx' = 1
    /\ UNCHANGED <<lineCount, parsedCount, totalLines, totalParsed,
                   minuteData, countryTotals, statusTotals, ipCache, pending,
                   output, lookups, lastLine, lastResult, parsedLines>>

\* main from its start to the first `await processLogFile(...)`, for a
\* directory holding the entries dir
Scan(dir) ==
    /\ pc = "start"
    /\ files' = LogFiles(dir)
    /\ IF LogFiles(dir) = <<>>
       THEN /\ pc' = "exit1"
            /\ fileIdx' = fileIdx
       ELSE /\ pc' = "files"
            /\ fileIdx' = 1
    /\ UNCHANGED <<lineCount, parsedCount, totalLines, totalParsed,
                   minuteData, countryTotals, statusTotals, ipCache, pending,
                   output, lookups, lastLine, lastResult, parsedLines>>

(***************************************************************************)
(* main after the file loop: statistics and the exported document.         *)
(* Numbers with two decimals are kept in hundredths.  The order of the     *)
(* keys of an object is not represented.                                   *)
(***************************************************************************)
\* the entries of COUNTRY_NAMES for the codes in use
COUNTRY_NAMES == [c \in Countries |->
                    CASE c = "US" -> "United States" [] c = "BR" -> "Brazil"]

\* COUNTRY_NAMES[code] || code
getCountryName(code) ==
    IF code \in DOMAIN COUNTRY_NAMES THEN COUNTRY_NAMES[code] ELSE code

\* Math.round(num / den): the nearest integer, a half rounding up; the
\* division is exact here, the rounding error of floating point is left out
RoundDiv(num, den) == (2 * num + den) \div (2 * den)

RECURSIVE SumSeq(_)
SumSeq(q) == IF q = <<>> THEN 0 ELSE Head(q) + SumSeq(Tail(q))

SeqMax(q) == CHOOSE x \in {q[i] : i \in DOMAIN q} : \A i \in DOMAIN q : q[i] <= x
SeqMin(q) == CHOOSE x \in {q[i] : i \in DOMAIN q} : \A i \in DOMAIN q : x <= q[i]

\* Object.keys(minuteData).sort()
SortedMinutes(md) == SortStrings(DOMAIN md)

\* the peak loop with >= in place of >: the last maximum wins
RECURSIVE PeakLoopLastMax(_, _, _)
PeakLoopLastMax(md, sorted, n) ==
    IF n = 0 THEN [minute |-> sorted[1], requests |-> 0]
    ELSE LET before == PeakLoopLastMax(md, sorted, n - 1)
         IN  IF md[sorted[n]].requests >= before.requests
             THEN [minute |-> sorted[n], requests |-> md[sorted[n]].requests]
             ELSE before

\* the peak loop over the first n sorted minutes: [minute, requests]
RECURSIVE PeakLoop(_, _, _)
PeakLoop(md, sorted, n) ==
    IF n = 0 THEN [minute |-> sorted[1], requests |-> 0]
    ELSE LET before == PeakLoop(md, sorted, n - 1)
         IN  IF md[sorted[n]].requests > before.requests
             THEN [minute |-> sorted[n], requests |-> md[sorted[n]].requests]
             ELSE before

\* Math.floor in place of Math.round
PercentageFloor(count, totalRequests) == (count * 10000) \div totalRequests

\* Math.round((count / totalRequests) * 10000) / 100, in hundredths
Percentage(count, totalRequests) == RoundDiv(count * 10000, totalRequests)

\* the time_series array
TimeSeries(md) ==
    LET sorted == SortedMinutes(md)
    IN  [i \in DOMAIN sorted |->
            LET data == md[sorted[i]]
            IN  [timestamp |-> sorted[i],
                 requests |-> data.requests,
                 bytes |-> data.bytes,
                 countries |-> [code \in DOMAIN data.countries |->
                                   [code |-> code, name |-> getCountryName(code),
                                    count |-> data.countries[code]]],
                 status_codes |-> data.status_codes]]

\* the total that the percentages are taken of
TotalRequests(md) ==
    LET sorted == SortedMinutes(md)
    IN  SumSeq([i \in DOMAIN sorted |-> md[sorted[i]].requests])

\* exportData, for a non-empty minuteData
ExportData(md, ct, st, cache, lines, parsed) ==
    LET sorted == SortedMinutes(md)
        requestCounts == [i \in DOMAIN sorted |-> md[sorted[i]].requests]
        totalRequests == TotalRequests(md)
        peak == PeakLoop(md, sorted, Len(sorted))
    IN  [written |-> TRUE,
         metadata |->
            [total_lines |-> lines,
             parsed_lines |-> parsed,
             total_minutes |-> Len(sorted),
             unique_ips |-> Cardinality(DOMAIN cache),
             start_time |-> sorted[1],
             end_time |-> sorted[Len(sorted)]],
         statistics |->
            [total_requests |-> totalRequests,
             avg_requests_per_minute |-> RoundDiv(totalRequests * 100, Len(sorted)),
             max_requests_per_minute |-> SeqMax(requestCounts),
             min_requests_per_minute |-> SeqMin(requestCounts),
             peak_minute |-> peak.minute,
             peak_requests |-> peak.requests,
             status_code_totals |-> st,
             country_totals |->
                [code \in DOMAIN ct |->
                    [code |-> code, name |-> getCountryName(code),
                     count |-> ct[code],
                     percentage |-> Percentage(ct[code], totalRequests)]]],
         time_series |-> TimeSeries(md)]

(***************************************************************************)
(* processLogFile: the 'line' listener.                                    *)
(***************************************************************************)
\* number of 'line' events delivered so far in the run
LinesDelivered == totalLines + lineCount

\* CountRequest without the status_codes increment
CountRequestSkipsStatus(md, minuteKey, status, size) ==
    LET init == IF minuteKey \in DOMAIN md THEN md
                ELSE md @@ (minuteKey :> [requests |-> 0, bytes |-> 0,
                                          countries |-> EmptyMap,
                                          status_codes |-> EmptyMap])
        b == init[minuteKey]
    IN  [init EXCEPT ![minuteKey] =
            [requests |-> b.requests + 1,
             bytes |-> IF size # "-" THEN b.bytes + ParseInt(size) ELSE b.bytes,
             countries |-> b.countries,
             status_codes |-> b.status_codes]]

\* minuteData after the listener's statements from `if (!minuteData[key])`
\* to the status_codes increment
CountRequest(md, minuteKey, status, size) ==
    LET init == IF minuteKey \in DOMAIN md THEN md
                ELSE md @@ (minuteKey :> [requests |-> 0, bytes |-> 0,
                                          countries |-> EmptyMap,
                                          status_codes |-> EmptyMap])
        b == init[minuteKey]
    IN  [init EXCEPT ![minuteKey] =
            [requests |-> b.requests + 1,
             bytes |-> IF size # "-" THEN b.bytes + ParseInt(size) ELSE b.bytes,
             countries |-> b.countries,
             status_codes |-> Inc(b.status_codes, status)]]

\* minuteData after `minuteData[minuteKey].countries[country] = (... || 0) + 1`
CountCountry(md, minuteKey, country) ==
    [md EXCEPT ![minuteKey].countries = Inc(@, country)]

\* The listener from `parsedCount++` to its first suspension: to its end
\* when ipCache has the ip, and otherwise to `await geoip.lookup(ip)`, where
\* it is left pending.
CountParsedLine(line) ==
    LET dt == parseDateTime(line.datetime)
        minuteKey == formatMinuteKey(truncateToMinute(dt))
        md == CountRequest(minuteData, minuteKey, line.status, line.size)
    IN  /\ parsedCount' = parsedCount + 1
        /\ parsedLines' = Inc(parsedLines, line)
        /\ statusTotals' = Inc(statusTotals, line.status)
        /\ UNCHANGED ipCache
        /\ IF line.ip \in DOMAIN ipCache
           THEN /\ minuteData' = CountCountry(md, minuteKey, ipCache[line.ip])
                /\ countryTotals' = Inc(countryTotals, ipCache[line.ip])
                /\ UNCHANGED <<pending, lookups>>
           ELSE /\ minuteData' = md
                /\ lookups' = Inc(lookups, line.ip)
                /\ pending' = pending \cup
                      {[line |-> LinesDelivered + 1, file |-> fileIdx,
                        ip |-> line.ip, minuteKey |-> minuteKey]}
                /\ UNCHANGED countryTotals

\* OnLine with `parsedCount++` moved above the two early returns
OnLineCountsBeforeMatching(line) ==
    /\ pc = "files"
    /\ LinesDelivered < MaxLines
    /\ lineCount' = lineCount + 1
    /\ lastLine' = line
    /\ UNCHANGED <<pc, files, fileIdx, totalLines, totalParsed, output,
                   lastResult>>
    /\ IF ~LOG_PATTERN(line) \/ parseDateTime(line.datetime).null
       THEN /\ parsedCount' = parsedCount + 1
            /\ UNCHANGED <<minuteData, countryTotals, statusTotals,
                           ipCache, pending, lookups, parsedLines>>
       ELSE CountParsedLine(line)

\* The listener from its first statement to its first suspension: to one of
\* the early returns, or through CountParsedLine.
OnLine(line) ==
    /\ pc = "files"
    /\ LinesDelivered < MaxLines
    /\ lineCount' = lineCount + 1
    /\ lastLine' = line
    /\ UNCHANGED <<pc, files, fileIdx, totalLines, totalParsed, output,
                   lastResult>>
    /\ IF ~LOG_PATTERN(line) \/ parseDateTime(line.datetime).null
       THEN UNCHANGED <<parsedCount, minuteData, countryTotals, statusTotals,
                        ipCache, pending, lookups, parsedLines>>
       ELSE CountParsedLine(line)

\* CountResolved without the increment of the minute's countries
CountResolvedTotalsOnly(p, country) ==
    /\ ipCache' = [ip \in DOMAIN ipCache \cup {p.ip} |->
                      IF ip = p.ip THEN country ELSE ipCache[ip]]
    /\ minuteData' = minuteData
    /\ countryTotals' = Inc(countryTotals, country)
    /\ pending' = pending \ {p}

\* The statements after the try/catch, for the listener p and its country:
\* the cache write and the two country increments.
CountResolved(p, country) ==
    /\ ipCache' = [ip \in DOMAIN ipCache \cup {p.ip} |->
                      IF ip = p.ip THEN country ELSE ipCache[ip]]
    /\ minuteData' = CountCountry(minuteData, p.minuteKey, country)
    /\ countryTotals' = Inc(countryTotals, country)
    /\ pending' = pending \ {p}

\* country = geo ? geo.country : 'Unknown', and 'Unknown' in the catch
CountryOf(result) ==
    IF result \in {"throw", "null"} THEN "Unknown" ELSE result

\* LookupComplete with the export redone whenever totals change after the
\* output was written
LookupCompleteRewritesOutput(p, result) ==
    /\ p \in pending
    /\ pc \in {"files", "written"}
    /\ lastResult' = result
    /\ CountResolved(p, CountryOf(result))
    /\ output' = IF output.written
                 THEN ExportData(minuteData', countryTotals', statusTotals,
                                 ipCache', totalLines, totalParsed)
                 ELSE output
    /\ UNCHANGED <<pc, files, fileIdx, lineCount, parsedCount, totalLines,
                   totalParsed, statusTotals, lookups, lastLine, parsedLines>>

\* LookupComplete without the try/catch: a throwing lookup rejects the
\* listener's promise, which nothing handles, and the process ends
LookupCompleteWithoutCatch(p, result) ==
    /\ p \in pending
    /\ pc \in {"files", "written"}
    /\ lastResult' = result
    /\ IF result = "throw"
       THEN /\ pc' = "exit1"
            /\ pending' = pending \ {p}
            /\ UNCHANGED <<ipCache, minuteData, countryTotals>>
       ELSE /\ CountResolved(p, CountryOf(result))
            /\ UNCHANGED pc
    /\ UNCHANGED <<files, fileIdx, lineCount, parsedCount, totalLines,
                   totalParsed, statusTotals, output, lookups, lastLine,
                   parsedLines>>

\* The listener p from the settling of its lookup, with result, to its end:
\* the try/catch around the await, the cache write and the two country
\* increments.  It runs whenever the lookup settles, also after main has
\* written the output.
LookupComplete(p, result) ==
    /\ p \in pending
    /\ pc \in {"files", "written"}
    /\ lastResult' = result
    /\ CountResolved(p, CountryOf(result))
    /\ UNCHANGED <<pc, files, fileIdx, lineCount, parsedCount, totalLines,
                   totalParsed, statusTotals, output, lookups, lastLine,
                   parsedLines>>

(***************************************************************************)
(* processLogFile: the 'close' listener, and main's continuation.          *)
(***************************************************************************)
\* main from the settling of `await processLogFile(...)`, with the file's
\* counts, to its next suspension: it adds the counts and either starts the
\* next file or, after the last one, goes through the statistics, the export
\* and writeFileSync (or process.exit(1) when there is no minute at all)
\* without suspending.
MainAfterFile(fileLines, fileParsed) ==
    /\ totalLines' = totalLines + fileLines
    /\ totalParsed' = totalParsed + fileParsed
    /\ IF fileIdx < Len(files)
       THEN /\ fileIdx' = fileIdx + 1
            /\ lineCount' = 0
            /\ parsedCount' = 0
            /\ UNCHANGED <<pc, output>>
       ELSE /\ UNCHANGED <<fileIdx, lineCount, parsedCount>>
            /\ IF DOMAIN minuteData = {}
               THEN /\ pc' = "exit1"
                    /\ UNCHANGED output
               ELSE /\ pc' = "written"
                    /\ output' = ExportData(minuteData, countryTotals,
                                            statusTotals, ipCache,
                                            totalLines', totalParsed')
    /\ UNCHANGED <<files, minuteData, countryTotals, statusTotals, ipCache>>

\* The stream of the current file has ended: 'close' resolves the promise
\* main awaits with { lineCount, parsedCount }, and main's continuation runs
\* as a microtask of the same turn of the event loop, before the I/O of any
\* pending lookup can settle.  Listeners still pending are not waited for.
OnClose ==
    /\ pc = "files"
    /\ MainAfterFile(lineCount, parsedCount)
    /\ UNCHANGED <<pending, lookups, lastLine, lastResult, parsedLines>>

(***************************************************************************)
(* The other programs of the repository each keep their state in one       *)
(* record: the two downsample functions of the visualizations, the summary *)
(* statistics applied to given counters, the minute key of given           *)
(* timestamps, the sort state of the bot table, and the bot enrichment     *)
(* script.  A program that is not running is Off.                          *)
(***************************************************************************)
VARIABLES
    ds,     \* downsample of ip-location: a call in progress
    bvb,    \* downsample of bot-vs-browser: a call in progress
    stats,  \* main's statistics over given counters
    keys,   \* minute keys of two given timestamps
    table,  \* the bot table component
    bots    \* the bot enrichment script

Off == [pc |-> "off"]

others == <<ds, bvb, stats, keys, table, bots>>

OthersOff ==
    /\ ds = Off /\ bvb = Off /\ stats = Off
    /\ keys = Off /\ table = Off /\ bots = Off

allvars == <<vars, others>>

\* the traffic aggregation script alone
TrafficInit == Init /\ OthersOff

Next ==
    \/ /\ \E dir \in SUBSET FileNames : Cardinality(dir) <= MaxFiles /\ Scan(dir)
       /\ UNCHANGED others
    \/ /\ \E line \in Lines : OnLine(line)
       /\ UNCHANGED others
    \/ /\ \E p \in pending, result \in LookupResults : LookupComplete(p, result)
       /\ UNCHANGED others
    \/ /\ OnClose
       /\ UNCHANGED others

Spec == TrafficInit /\ [][Next]_allvars

(***************************************************************************)
(* downsample: the two implementations used by the visualizations.  A row  *)
(* is a sequence of numbers; the loop index i counts rows from 0 as in the *)
(* code.                                                                   *)
(***************************************************************************)
MaxRows == 3
MaxTarget == 3

\* the rows a series can hold, by width: offset, metric, further metrics
Rows(width) ==
    {SubSeq(<<o, m, 35 - m, 7>>, 1, width) : o \in 0..2, m \in {10, 25}}

RowSeqs(width) == UNION {[1..n -> Rows(width)] : n \in 0..MaxRows}

ExampleRows == <<<<0, 10>>, <<1, 20>>, <<2, 30>>, <<3, 40>>>>

DownsampleInputs ==
    {[data |-> d, targetPoints |-> t] :
        d \in RowSeqs(2) \cup RowSeqs(3) \cup RowSeqs(4), t \in 1..MaxTarget}
    \cup {[data |-> ExampleRows, targetPoints |-> 2]}

Idle == [pc |-> "idle"]

Min(a, b) == IF a <= b THEN a ELSE b

\* the quotient taken the wrong way round
RatioInverted(length, targetPoints) == targetPoints \div length

\* Math.floor in place of Math.ceil
RatioFloor(length, targetPoints) == length \div targetPoints

\* Math.ceil(data.length / targetPoints)
Ratio(length, targetPoints) == (length + targetPoints - 1) \div targetPoints

\* data.slice(i, Math.min(i + ratio, data.length))
Chunk(data, i, ratio) == SubSeq(data, i + 1, Min(i + ratio, Len(data)))

\* chunk.reduce((s, row) => s + row[col], 0), col counted from 1
ColumnSum(chunk, col) == SumSeq([r \in DOMAIN chunk |-> chunk[r][col]])

\* the column sums, not divided by chunk.length
AverageRowSum(chunk) ==
    [col \in 1..Len(chunk[1]) |-> ColumnSum(chunk, col)]

\* Math.floor in place of Math.round
AverageRowFloor(chunk) ==
    [col \in 1..Len(chunk[1]) |-> ColumnSum(chunk, col) \div Len(chunk)]

\* the inner loop of ip-location: one average per column of chunk[0]
AverageRow(chunk) ==
    [col \in 1..Len(chunk[1]) |-> RoundDiv(ColumnSum(chunk, col), Len(chunk))]

\* the offset column special-cased: the chunk's first offset, not its mean
BvbAverageRowKeepsOffset(chunk) ==
    << chunk[1][1],
       RoundDiv(ColumnSum(chunk, 2), Len(chunk)),
       RoundDiv(ColumnSum(chunk, 3), Len(chunk)) >>

\* bot-vs-browser: [avgOffset, avgBot, avgBrowser]
BvbAverageRow(chunk) ==
    << RoundDiv(ColumnSum(chunk, 1), Len(chunk)),
       RoundDiv(ColumnSum(chunk, 2), Len(chunk)),
       RoundDiv(ColumnSum(chunk, 3), Len(chunk)) >>

\* a call: the argument array, its content when passed, and the locals
Frame(data, targetPoints) ==
    [pc |-> "entry", data |-> data, input |-> data,
     targetPoints |-> targetPoints, ratio |-> 0, i |-> 0, result |-> <<>>]

\* the early return hands back a fresh empty array instead of data
EnterReturnsEmpty(f) ==
    IF Len(f.data) <= f.targetPoints
    THEN [f EXCEPT !.pc = "done", !.result = <<>>]
    ELSE [f EXCEPT !.pc = "loop", !.i = 0, !.result = <<>>,
                   !.ratio = Ratio(Len(f.data), f.targetPoints)]

\* the early return, else ratio and the empty result
Enter(f) ==
    IF Len(f.data) <= f.targetPoints
    THEN [f EXCEPT !.pc = "done", !.result = f.data]
    ELSE [f EXCEPT !.pc = "loop", !.i = 0, !.result = <<>>,
                   !.ratio = Ratio(Len(f.data), f.targetPoints)]

\* the chunk of the current iteration
CurrentChunk(f) == Chunk(f.data, f.i, f.ratio)

\* the end of an iteration of the for loop: push the averages, i += ratio
Iterate(f, avgEntry) ==
    [f EXCEPT !.result = Append(f.result, avgEntry), !.i = f.i + f.ratio]

\* both pages are given the same series; bot-vs-browser takes triples only
Call(data, targetPoints) ==
    /\ ds = Idle /\ bvb = Idle
    /\ ds' = Frame(data, targetPoints)
    /\ bvb' = IF \A r \in DOMAIN data : Len(data[r]) = 3
              THEN Frame(data, targetPoints) ELSE Idle
    /\ UNCHANGED <<vars, stats, keys, table, bots>>

DsEnter ==
    /\ ds.pc = "entry"
    /\ ds' = Enter(ds)
    /\ UNCHANGED <<vars, bvb, stats, keys, table, bots>>

DsIterate ==
    /\ ds.pc = "loop" /\ ds.i < Len(ds.data)
    /\ ds' = Iterate(ds, AverageRow(CurrentChunk(ds)))
    /\ UNCHANGED <<vars, bvb, stats, keys, table, bots>>

DsReturn ==
    /\ ds.pc = "loop" /\ ~(ds.i < Len(ds.data))
    /\ ds' = [ds EXCEPT !.pc = "done"]
    /\ UNCHANGED <<vars, bvb, stats, keys, table, bots>>

BvbEnter ==
    /\ bvb.pc = "entry"
    /\ bvb' = Enter(bvb)
    /\ UNCHANGED <<vars, ds, stats, keys, table, bots>>

BvbIterate ==
    /\ bvb.pc = "loop" /\ bvb.i < Len(bvb.data)
    /\ bvb' = Iterate(bvb, BvbAverageRow(CurrentChunk(bvb)))
    /\ UNCHANGED <<vars, ds, stats, keys, table, bots>>

BvbReturn ==
    /\ bvb.pc = "loop" /\ ~(bvb.i < Len(bvb.data))
    /\ bvb' = [bvb EXCEPT !.pc = "done"]
    /\ UNCHANGED <<vars, ds, stats, keys, table, bots>>

DownsampleInit ==
    /\ Init
    /\ ds = Idle /\ bvb = Idle
    /\ stats = Off /\ keys = Off /\ table = Off /\ bots = Off

DownsampleNext ==
    \/ /\ ds = Idle
       /\ \E in \in DownsampleInputs : Call(in.data, in.targetPoints)
    \/ DsEnter
    \/ DsIterate
    \/ DsReturn
    \/ BvbEnter
    \/ BvbIterate
    \/ BvbReturn

SpecDownsample == DownsampleInit /\ [][DownsampleNext]_allvars

\* the inputs whose metric is the same in every row: the loop's index does
\* not depend on the values averaged
FlatInputs ==
    {in \in DownsampleInputs : \A r \in DOMAIN in.data : in.data[r][2] = 10}

DownsampleFlatNext ==
    \/ /\ ds = Idle
       /\ \E in \in FlatInputs : Call(in.data, in.targetPoints)
    \/ DsEnter
    \/ DsIterate
    \/ DsReturn
    \/ BvbEnter
    \/ BvbIterate
    \/ BvbReturn

\* a page calls downsample, and a call, once made, runs on: nothing else
\* runs on the page's thread
SpecDownsampleFair ==
    DownsampleInit /\ [][DownsampleFlatNext]_allvars
        /\ WF_allvars(DownsampleFlatNext)

(***************************************************************************)
(* The statistics of main and the country percentages of the bot script,   *)
(* applied to given counters.                                              *)
(***************************************************************************)
MaxCount == 2

\* the key of minute m of 2025-01-01T00
MinuteAt(m) ==
    formatMinuteKey(truncateToMinute(parseDateTime(
        [shape |-> "dmy", day |-> 1, mon |-> "Jan", year |-> 2025,
         hour |-> 0, minute |-> m, second |-> 0])))

StatsMinutes == {MinuteAt(m) : m \in 0..2}

\* a bucket of n requests whose countries are not yet counted
Bucket(n) ==
    [requests |-> n, bytes |-> 0, countries |-> EmptyMap,
     status_codes |-> ("200" :> n)]

MinuteDatas ==
    UNION {[K -> {Bucket(n) : n \in {1, 5, 9}}] : K \in SUBSET StatsMinutes \ {{}}}

CountryCounts ==
    UNION {[K -> 1..MaxCount] : K \in SUBSET (Countries \cup {"Unknown"})}

\* Math.round((count / totalForBot) * 10000) / 100, in hundredths
BotPercentage(count, totalForBot) == RoundDiv(count * 10000, totalForBot)

\* countryPercentages of the bot script, in the insertion order of
\* countryCounts
CountryPercentages(countryCounts, totalForBot) ==
    [e \in DOMAIN countryCounts |->
        [code |-> countryCounts[e].key,
         name |-> getCountryName(countryCounts[e].key),
         count |-> countryCounts[e].count,
         percentage |-> BotPercentage(countryCounts[e].count, totalForBot)]]

\* counters as an object, its keys inserted in some order
RECURSIVE EntriesOf(_, _)
EntriesOf(m, K) ==
    IF K = {} THEN <<>>
    ELSE LET k == CHOOSE x \in K : TRUE
         IN  <<[key |-> k, count |-> m[k]]>> \o EntriesOf(m, K \ {k})

\* counters as the line listener leaves them: no more countries than requests
Given(md, ct) ==
    /\ SumMap(ct) <= TotalRequests(md)
    /\ stats' = [pc |-> "given", minuteData |-> md, countryTotals |-> ct,
                 output |-> NoOutput, botDone |-> FALSE,
                 countryPercentages |-> <<>>]
    /\ UNCHANGED <<vars, ds, bvb, keys, table, bots>>

\* main from the sort of the minutes to exportData
StatsExport ==
    /\ stats.pc = "given" /\ ~stats.output.written
    /\ LET total == TotalRequests(stats.minuteData)
       IN  stats' = [stats EXCEPT !.output =
                        ExportData(stats.minuteData, stats.countryTotals,
                                   "200" :> total, EmptyMap, total, total)]
    /\ UNCHANGED <<vars, ds, bvb, keys, table, bots>>

\* the bot script, for a bot whose IPs fell into these countries
StatsBotPercentages ==
    /\ stats.pc = "given" /\ ~stats.botDone
    /\ stats' = [stats EXCEPT !.botDone = TRUE,
                    !.countryPercentages =
                        CountryPercentages(
                            EntriesOf(stats.countryTotals, DOMAIN stats.countryTotals),
                            SumMap(stats.countryTotals))]
    /\ UNCHANGED <<vars, ds, bvb, keys, table, bots>>

StatsInit ==
    /\ Init
    /\ stats = Idle
    /\ ds = Off /\ bvb = Off /\ keys = Off /\ table = Off /\ bots = Off

StatsNext ==
    \/ /\ stats = Idle
       /\ \E md \in MinuteDatas, ct \in CountryCounts : Given(md, ct)
    \/ StatsExport
    \/ StatsBotPercentages

SpecStats == StatsInit /\ [][StatsNext]_allvars

(***************************************************************************)
(* The bot enrichment script.  An object whose key order reaches the       *)
(* output is a sequence of [key, count] entries in insertion order.        *)
(***************************************************************************)
MaxBots == 2

\* the ips lists a bot of the input can have
IpLists ==
    {<<>>, <<"1.2.3.4">>, <<"5.6.7.8", "1.2.3.4">>,
     <<"1.2.3.4", "5.6.7.8", "5.6.7.8">>}

\* botSummary, as the list of its bots' ips in key order
BotSummaries == UNION {[1..n -> IpLists] : n \in 0..MaxBots}

\* what geoip.lookup(ip) can do: throw, resolve to null, or resolve to a
\* record whose fields may be empty
GeoOutcomes(ip) ==
    IF ip = "1.2.3.4"
    THEN {[kind |-> "throw", country |-> "", region |-> "", city |-> "",
           timezone |-> ""],
          [kind |-> "geo", country |-> "US", region |-> "CA",
           city |-> "Los Angeles", timezone |-> "America/Los_Angeles"]}
    ELSE {[kind |-> "null", country |-> "", region |-> "", city |-> "",
           timezone |-> ""],
          [kind |-> "geo", country |-> "", region |-> "", city |-> "Paris",
           timezone |-> ""]}

\* obj[key] = (obj[key] || 0) + 1 on an object in insertion order
RECURSIVE IncEntry(_, _)
IncEntry(obj, key) ==
    IF obj = <<>> THEN <<[key |-> key, count |-> 1]>>
    ELSE IF Head(obj).key = key
         THEN <<[Head(obj) EXCEPT !.count = @ + 1]>> \o Tail(obj)
         ELSE <<Head(obj)>> \o IncEntry(Tail(obj), key)

\* the counts of an object, summed
RECURSIVE SumEntries(_)
SumEntries(obj) ==
    IF obj = <<>> THEN 0 ELSE Head(obj).count + SumEntries(Tail(obj))

\* entry e put into a list sorted by count descending, after its equals
RECURSIVE InsertByCount(_, _)
InsertByCount(sorted, e) ==
    IF sorted = <<>> THEN <<e>>
    ELSE IF Head(sorted).count >= e.count
         THEN <<Head(sorted)>> \o InsertByCount(Tail(sorted), e)
         ELSE <<e>> \o sorted

\* Object.entries(obj).sort((a, b) => b.count - a.count): a stable sort
RECURSIVE SortByCountDesc(_)
SortByCountDesc(obj) ==
    IF obj = <<>> THEN <<>>
    ELSE InsertByCount(SortByCountDesc(SubSeq(obj, 1, Len(obj) - 1)),
                       obj[Len(obj)])

\* main of the bot script up to the first bot: read the input, count
\* totalIPs
BotsLoad(botSummary) ==
    /\ bots' = [pc |-> "bot", botSummary |-> botSummary,
                totalIPs |-> SumSeq([b \in DOMAIN botSummary |-> Len(botSummary[b])]),
                processedIPs |-> 0, failedLookups |-> 0,
                botIdx |-> 1, ipIdx |-> 1,
                countryCounts |-> <<>>, regionCounts |-> <<>>,
                cityCounts |-> <<>>, timezoneCounts |-> <<>>,
                geo |-> <<>>, written |-> FALSE,
                metadata |-> [geo_enriched |-> FALSE, total_ips_processed |-> 0,
                              failed_geo_lookups |-> 0],
                calls |-> EmptyMap, done |-> 0, noResult |-> 0,
                trace |-> <<>>]
    /\ UNCHANGED <<vars, ds, bvb, stats, keys, table>>

\* the next IP of the current bot: processedIPs++, then the lookup is
\* invoked and main waits for it
BotsLookup ==
    /\ bots.pc = "bot"
    /\ bots.botIdx <= Len(bots.botSummary)
    /\ bots.ipIdx <= Len(bots.botSummary[bots.botIdx])
    /\ bots' = [bots EXCEPT !.pc = "await",
                    !.processedIPs = @ + 1,
                    !.calls = Inc(@, bots.botSummary[bots.botIdx][bots.ipIdx]),
                    !.trace = Append(@, bots.botSummary[bots.botIdx][bots.ipIdx])]
    /\ UNCHANGED <<vars, ds, bvb, stats, keys, table>>

\* CountGeo that leaves out a result without a country
CountGeoDropsCountryless(b, geo) ==
    IF geo.kind = "geo"
    THEN IF geo.country # ""
         THEN [b EXCEPT !.countryCounts = IncEntry(@, geo.country)]
         ELSE b
    ELSE [b EXCEPT !.countryCounts = IncEntry(@, "Unknown"),
                   !.failedLookups = @ + 1]

\* the counters after the lookup settled with geo
CountGeo(b, geo) ==
    IF geo.kind = "geo"
    THEN LET country == IF geo.country # "" THEN geo.country ELSE "Unknown"
         IN  [b EXCEPT
                !.countryCounts = IncEntry(@, country),
                !.regionCounts =
                    IF geo.region # "" THEN IncEntry(@, <<country, geo.region>>)
                    ELSE @,
                !.cityCounts =
                    IF geo.city # "" THEN IncEntry(@, <<geo.city, country>>)
                    ELSE @,
                !.timezoneCounts =
                    IF geo.timezone # "" THEN IncEntry(@, geo.timezone) ELSE @]
    ELSE [b EXCEPT !.countryCounts = IncEntry(@, "Unknown"),
                   !.failedLookups = @ + 1]

\* the lookup settles; main counts it and goes on to the next IP
BotsLookupComplete(geo) ==
    /\ bots.pc = "await"
    /\ bots' = [CountGeo(bots, geo) EXCEPT
                    !.pc = "bot", !.ipIdx = @ + 1, !.done = @ + 1,
                    !.noResult = IF geo.kind = "geo" THEN @ ELSE @ + 1]
    /\ UNCHANGED <<vars, ds, bvb, stats, keys, table>>

\* bot.geo of the current bot
BotGeo(b) ==
    [countries |->
        SortByCountDesc(CountryPercentages(b.countryCounts,
                                           Len(b.botSummary[b.botIdx]))),
     top_cities |->
        LET sorted == SortByCountDesc(b.cityCounts)
        IN  SubSeq(sorted, 1, Min(10, Len(sorted))),
     timezones |-> b.timezoneCounts]

\* after the last IP of a bot: percentages, the sorts, bot.geo; next bot
BotsFinishBot ==
    /\ bots.pc = "bot"
    /\ bots.botIdx <= Len(bots.botSummary)
    /\ bots.ipIdx > Len(bots.botSummary[bots.botIdx])
    /\ bots' = [bots EXCEPT !.geo = Append(@, BotGeo(bots)),
                    !.botIdx = @ + 1, !.ipIdx = 1,
                    !.countryCounts = <<>>, !.regionCounts = <<>>,
                    !.cityCounts = <<>>, !.timezoneCounts = <<>>]
    /\ UNCHANGED <<vars, ds, bvb, stats, keys, table>>

\* the write placed inside the loop, ahead of the last bot
BotsWriteBeforeLastBot ==
    /\ bots.pc = "bot"
    /\ bots.botIdx >= Len(bots.botSummary)
    /\ bots' = [bots EXCEPT !.pc = "written", !.written = TRUE,
                    !.metadata = [geo_enriched |-> TRUE,
                                  total_ips_processed |-> bots.totalIPs,
                                  failed_geo_lookups |-> bots.failedLookups]]
    /\ UNCHANGED <<vars, ds, bvb, stats, keys, table>>

\* after the last bot: the metadata and writeFileSync
BotsWrite ==
    /\ bots.pc = "bot"
    /\ bots.botIdx > Len(bots.botSummary)
    /\ bots' = [bots EXCEPT !.pc = "written", !.written = TRUE,
                    !.metadata = [geo_enriched |-> TRUE,
                                  total_ips_processed |-> bots.totalIPs,
                                  failed_geo_lookups |-> bots.failedLookups]]
    /\ UNCHANGED <<vars, ds, bvb, stats, keys, table>>

BotsInit ==
    /\ Init
    /\ bots = Idle
    /\ ds = Off /\ bvb = Off /\ stats = Off /\ keys = Off /\ table = Off

BotsNext ==
    \/ /\ bots = Idle
       /\ \E botSummary \in BotSummaries : BotsLoad(botSummary)
    \/ BotsLookup
    \/ /\ bots.pc = "await"
       /\ \E geo \in GeoOutcomes(bots.botSummary[bots.botIdx][bots.ipIdx]) :
              BotsLookupComplete(geo)
    \/ BotsFinishBot
    \/ BotsWrite

SpecBots == BotsInit /\ [][BotsNext]_allvars

(***************************************************************************)
(* The minute keys of two timestamps, as the line listener derives them.   *)
(***************************************************************************)
\* timestamps that the regular expression of parseDateTime accepts
KeyTexts ==
    [shape : {"dmy"}, day : {1}, mon : {"Jan", "Dec", "Foo"},
     year : {999, 2025}, hour : {0, 23}, minute : {0, 59}, second : {12, 40}]

\* const dt = parseDateTime(datetime), for two lines
KeysParse(a, b) ==
    /\ keys' = [pc |-> "parsed", a |-> a, b |-> b,
                dtA |-> parseDateTime(a), dtB |-> parseDateTime(b),
                keyA |-> <<>>, keyB |-> <<>>]
    /\ UNCHANGED <<vars, ds, bvb, stats, table, bots>>

\* const minuteKey = formatMinuteKey(truncateToMinute(dt)), for both
KeysFormat ==
    /\ keys.pc = "parsed"
    /\ keys' = [keys EXCEPT !.pc = "keyed",
                    !.keyA = formatMinuteKey(truncateToMinute(keys.dtA)),
                    !.keyB = formatMinuteKey(truncateToMinute(keys.dtB))]
    /\ UNCHANGED <<vars, ds, bvb, stats, table, bots>>

KeysInit ==
    /\ Init
    /\ keys = Idle
    /\ ds = Off /\ bvb = Off /\ stats = Off /\ table = Off /\ bots = Off

KeysNext ==
    \/ /\ keys = Idle
       /\ \E a \in KeyTexts, b \in KeyTexts : KeysParse(a, b)
    \/ KeysFormat

SpecKeys == KeysInit /\ [][KeysNext]_allvars

(***************************************************************************)
(* The bot table component: its refs, the computed filteredRows, and the   *)
(* record of the last two toggleSort calls.                                *)
(***************************************************************************)
BotNames == {<<"a", "i">>, <<"B", "o", "t">>, <<"G", "p", "t">>}

\* the rows of a loaded bot summary: distinct names, in the file's order
TableRows ==
    LET row == [name : BotNames, count : {1, 2}]
    IN  {<<>>} \cup {<<r>> : r \in row}
        \cup {pair \in row \X row : pair[1].name # pair[2].name}

SearchQueries == {<<>>, <<"t">>, <<"G">>}

\* String.prototype.toLowerCase, letter by letter
ToLowerCase(str) ==
    [c \in DOMAIN str |->
        CASE str[c] = "B" -> "b" [] str[c] = "G" -> "g" [] OTHER -> str[c]]

\* String.prototype.includes
Includes(str, part) ==
    \E at \in 0..(Len(str) - Len(part)) : SubSeq(str, at + 1, at + Len(part)) = part

\* the place of a letter in the alphabet, whatever its case
LetterRank(c) ==
    CASE c \in {"a", "A"} -> 1 [] c \in {"b", "B"} -> 2 [] c \in {"g", "G"} -> 7
      [] c \in {"i", "I"} -> 9 [] c \in {"o", "O"} -> 15
      [] c \in {"p", "P"} -> 16 [] c \in {"t", "T"} -> 20

\* a.localeCompare(b) < 0 for names that differ in more than case: letter
\* by letter in alphabetical order, case set aside, a proper prefix first
RECURSIVE LocaleLess(_, _)
LocaleLess(a, b) ==
    IF a = <<>> THEN b # <<>>
    ELSE IF b = <<>> THEN FALSE
    ELSE IF LetterRank(Head(a)) = LetterRank(Head(b))
         THEN LocaleLess(Tail(a), Tail(b))
         ELSE LetterRank(Head(a)) < LetterRank(Head(b))

\* the comparator of filteredRows is negative for (a, b)
SortsBefore(a, b, key, asc) ==
    IF key = "name"
    THEN IF asc THEN LocaleLess(a.name, b.name) ELSE LocaleLess(b.name, a.name)
    ELSE IF asc THEN a.count < b.count ELSE b.count < a.count

\* row put into a sorted list, after the rows it does not sort before
RECURSIVE InsertRow(_, _, _, _)
InsertRow(sorted, row, key, asc) ==
    IF sorted = <<>> THEN <<row>>
    ELSE IF SortsBefore(row, Head(sorted), key, asc) THEN <<row>> \o sorted
         ELSE <<Head(sorted)>> \o InsertRow(Tail(sorted), row, key, asc)

\* [...result].sort(comparator): a stable sort
RECURSIVE SortRows(_, _, _)
SortRows(rows, key, asc) ==
    IF rows = <<>> THEN <<>>
    ELSE InsertRow(SortRows(SubSeq(rows, 1, Len(rows) - 1), key, asc),
                   rows[Len(rows)], key, asc)

\* the computed filteredRows
filteredRows(rows, searchQuery, key, asc) ==
    LET query == ToLowerCase(searchQuery)
        result == IF searchQuery # <<>>
                  THEN SelectSeq(rows, LAMBDA row : Includes(ToLowerCase(row.name), query))
                  ELSE rows
    IN  SortRows(result, key, asc)

\* the component after setup: loading, sorted by count, descending
TableSetup ==
    [pc |-> "setup", loading |-> TRUE, error |-> FALSE, rows |-> <<>>,
     searchQuery |-> <<>>, sortKey |-> "count", sortAsc |-> FALSE,
     shown |-> <<>>, trail |-> <<>>]

Recomputed(t) ==
    [t EXCEPT !.shown = filteredRows(t.rows, t.searchQuery, t.sortKey, t.sortAsc)]

\* onMounted: the fetch succeeded
TableLoaded(rows) ==
    /\ table.pc = "setup"
    /\ table' = Recomputed([table EXCEPT !.pc = "table", !.rows = rows,
                                         !.loading = FALSE])
    /\ UNCHANGED <<vars, ds, bvb, stats, keys, bots>>

\* onMounted: the fetch failed; the table is never rendered
TableLoadFailed ==
    /\ table.pc = "setup"
    /\ table' = [table EXCEPT !.pc = "error", !.error = TRUE, !.loading = FALSE]
    /\ UNCHANGED <<vars, ds, bvb, stats, keys, bots>>

\* the search box
TableSearch(query) ==
    /\ table.pc = "table"
    /\ table' = Recomputed([table EXCEPT !.searchQuery = query])
    /\ UNCHANGED <<vars, ds, bvb, stats, keys, bots>>

\* the last two calls: the key given and the refs before the call
Noted(t, key) ==
    LET call == [key |-> key, sortKey |-> t.sortKey, sortAsc |-> t.sortAsc]
    IN  IF t.trail = <<>> THEN <<call>> ELSE <<t.trail[Len(t.trail)], call>>

\* the toggleSort of the component whose direction survives a change of key
toggleSortKeepsDirection(key) ==
    /\ table.pc = "table"
    /\ table' = Recomputed(
           IF table.sortKey = key
           THEN [table EXCEPT !.sortAsc = ~table.sortAsc,
                              !.trail = Noted(table, key)]
           ELSE [table EXCEPT !.sortKey = key,
                              !.trail = Noted(table, key)])
    /\ UNCHANGED <<vars, ds, bvb, stats, keys, bots>>

\* a click on a column header
toggleSort(key) ==
    /\ table.pc = "table"
    /\ table' = Recomputed(
           IF table.sortKey = key
           THEN [table EXCEPT !.sortAsc = ~table.sortAsc,
                              !.trail = Noted(table, key)]
           ELSE [table EXCEPT !.sortKey = key, !.sortAsc = (key = "name"),
                              !.trail = Noted(table, key)])
    /\ UNCHANGED <<vars, ds, bvb, stats, keys, bots>>

TableInit ==
    /\ Init
    /\ table = TableSetup
    /\ ds = Off /\ bvb = Off /\ stats = Off /\ keys = Off /\ bots = Off

TableNext ==
    \/ /\ table.pc = "setup"
       /\ \E rows \in TableRows : TableLoaded(rows)
    \/ TableLoadFailed
    \/ /\ table.pc = "table"
       /\ \E query \in SearchQueries : TableSearch(query)
    \/ /\ table.pc = "table"
       /\ \E key \in {"name", "count"} : toggleSort(key)

SpecTable == TableInit /\ [][TableNext]_allvars

(***************************************************************************)
(* Steps, as the properties below recognise them.                          *)
(***************************************************************************)
\* this step delivers a 'line' event (OnClose only ever resets lineCount)
LineStep == lineCount' = lineCount + 1

\* this step runs a suspended listener to its end
SettleStep == pending' # pending /\ pending' \subseteq pending

\* the listener a SettleStep resumes
Settled == CHOOSE p \in pending : p \notin pending'

(***************************************************************************)
(* Properties.                                                             *)
(***************************************************************************)

\* C1: line handlers are strictly serialized: every step of line N's handler,
\* the continuation after its awaited geo lookup included, is over before the
\* handler of line N+1 starts; so no 'line' event is delivered while an
\* earlier listener is still suspended.
C1_LinesSerialized == [][LineStep => pending = {}]_vars

\* C2: cache-hit law: during one run geoip.lookup is invoked at most once for
\* every IP string.
C2_LookupOncePerIp == \A ip \in DOMAIN lookups : lookups[ip] <= 1

\* C3: bucket-sum invariant: in the time series main writes, the country
\* counts of every minute bucket sum to its requests count.
C3_BucketSum ==
    output.written =>
        \A i \in DOMAIN output.time_series :
            LET b == output.time_series[i]
            IN  SumMap([code \in DOMAIN b.countries |-> b.countries[code].count])
                    = b.requests

\* C4: the geo cache is append-only: once ipCache[ip] has a value no later
\* step changes it.
C4_CacheAppendOnly ==
    [][\A ip \in DOMAIN ipCache :
          ip \in DOMAIN ipCache' /\ ipCache'[ip] = ipCache[ip]]_vars

\* C5: files are processed in ascending filename order and without
\* interleaving: no listener of a line of file k updates the shared maps
\* after the first line of file k+1 has been handled.
C5_FilesInOrder ==
    /\ [](\A i, j \in DOMAIN files : i < j => LexLess(files[i], files[j]))
    /\ [][SettleStep => ~(Settled.file < fileIdx /\ lineCount >= 1)]_vars

\* the calendar minute a line's timestamp names
CalendarMinute(line) ==
    <<line.datetime.year, line.datetime.mon, line.datetime.day,
      line.datetime.hour, line.datetime.minute>>

\* number of parsed lines that satisfy P
ParsedWhere(P(_)) ==
    SumOver(parsedLines, {l \in DOMAIN parsedLines : P(l)})

\* the exported totals agree with the parsed lines and the cache
EndToEndTotals ==
    LET ct == output.statistics.country_totals
        st == output.statistics.status_code_totals
    IN  /\ \A l \in DOMAIN parsedLines : l.ip \in DOMAIN ipCache
        /\ \A c \in Countries \cup {"Unknown"} :
              LET ResolvesToC(l) == l.ip \in DOMAIN ipCache /\ ipCache[l.ip] = c
              IN  (IF c \in DOMAIN ct THEN ct[c].count ELSE 0)
                      = ParsedWhere(ResolvesToC)
        /\ \A s \in DigitTokens :
              LET HasStatusS(l) == l.status = s
              IN  Get(st, s) = ParsedWhere(HasStatusS)
        /\ output.metadata.total_minutes
              = Cardinality({CalendarMinute(l) : l \in DOMAIN parsedLines})

\* C6: end-to-end totals: when main writes the output, every parsed line's IP
\* has resolved, country_totals[c] is the number of parsed lines whose IP
\* resolves to c (as the cache has it), status_code_totals[s] is the number of
\* parsed lines with status s, and there are as many buckets as distinct
\* calendar minutes among the parsed lines.
C6_EndToEndTotals ==
    [][(~output.written /\ output'.written) => EndToEndTotals']_vars

\* the exported percentages are those of the exported counts in the exported
\* total: the nearest hundredth of a percent, a half rounding up
PercentagesOfCapturedTotal ==
    LET ct == output.statistics.country_totals
        t == output.statistics.total_requests
    IN  \A c \in DOMAIN ct :
            /\ 2 * ct[c].percentage * t <= 2 * ct[c].count * 10000 + t
            /\ 2 * ct[c].count * 10000 + t < 2 * (ct[c].percentage + 1) * t

\* C7: summarization is a one-shot snapshot: the percentages are taken of the
\* totalRequests captured with the statistics, and nothing that happens after
\* the write (a geo lookup settling late and changing countryTotals and
\* minuteData) changes them or the written output.
C7_OneShotSnapshot ==
    /\ [](output.written => PercentagesOfCapturedTotal)
    /\ [][output.written => output' = output]_vars

\* C7 witness: the output is written and countryTotals has since moved away
\* from the counts in it.
C7_Witness ==
    /\ output.written
    /\ \E c \in DOMAIN countryTotals :
          \/ c \notin DOMAIN output.statistics.country_totals
          \/ output.statistics.country_totals[c].count # countryTotals[c]

\* C8: unparseable line isolation: a line that does not match the log grammar
\* increments lineCount only; parsedCount, minuteData, statusTotals,
\* countryTotals and ipCache stay as they are and no lookup is invoked.
C8_UnparseableLineIsolated ==
    [][(LineStep /\ ~LOG_PATTERN(lastLine')) =>
          UNCHANGED <<parsedCount, totalParsed, minuteData, statusTotals,
                      countryTotals, ipCache, lookups, pending>>]_vars

\* C8 witness: a file of one well-formed line and one line without its status
\* field: lineCount 2, parsedCount 1.
C8_Witness ==
    /\ lineCount = 2
    /\ parsedCount = 1
    /\ lastLine.status = ""
    /\ ~LOG_PATTERN(lastLine)

\* the timestamp sub-grammar DD/MonAbbrev/YYYY:HH:MM:SS +-HHMM
TimestampGrammar(text) == text.shape = "dmy" /\ text.mon \in DOMAIN months

\* C9: a line that matches the outer grammar but whose timestamp does not
\* match the sub-grammar (a month that is none of the twelve abbreviations
\* included) is dropped from all aggregation.
C9_BadTimestampDropped ==
    [][(LineStep /\ LOG_PATTERN(lastLine')
                 /\ ~TimestampGrammar(lastLine'.datetime)) =>
          UNCHANGED <<parsedCount, minuteData, statusTotals, countryTotals,
                      lookups, pending>>]_vars

\* C10: geo lookup failure is absorbed: when the lookup throws or yields no
\* result, the listener caches 'Unknown' for the IP, counts the record under
\* 'Unknown' in its bucket and in countryTotals, and main goes on as it was;
\* and once an IP is in the cache no lookup is invoked for it again.
C10_LookupFailureAbsorbed ==
    /\ [][(SettleStep /\ lastResult' \in {"throw", "null"}) =>
             LET p == Settled
                 before == minuteData[p.minuteKey].countries
                 after == minuteData'[p.minuteKey].countries
             IN  /\ p.ip \in DOMAIN ipCache' /\ ipCache'[p.ip] = "Unknown"
                 /\ Get(after, "Unknown") = Get(before, "Unknown") + 1
                 /\ Get(countryTotals', "Unknown") = Get(countryTotals, "Unknown") + 1
                 /\ pc' = pc]_vars
    /\ [][\A ip \in DOMAIN ipCache : Get(lookups', ip) = Get(lookups, ip)]_vars

\* C10 witness: the only lookup of the run failed, and a later line of the
\* same IP was counted under 'Unknown' from the cache without a second call.
C10_Witness ==
    /\ lastResult \in {"throw", "null"}
    /\ pending = {}
    /\ SumMap(lookups) = 1
    /\ \E ip \in DOMAIN ipCache : ipCache[ip] = "Unknown"
    /\ Get(countryTotals, "Unknown") = 2

\* C11: fatal no-data conditions: main exits with a non-zero code and writes
\* nothing when no access.log* file is found and when no record parsed over
\* all files; so whatever is written has at least one bucket, and the average
\* total / bucketCount is never taken with bucketCount = 0.
C11_FatalNoData ==
    /\ [](pc = "exit1" => ~output.written)
    /\ [](output.written => /\ files # <<>>
                            /\ totalParsed >= 1
                            /\ output.metadata.total_minutes >= 1)
    /\ [][(pc = "start" /\ pc' # "start" /\ files' = <<>>) => pc' = "exit1"]_vars
    /\ [][(pc = "files" /\ pc' # "files" /\ totalParsed' = 0) =>
             (pc' = "exit1" /\ ~output'.written)]_vars

\* C11 witness: main has exited after reading two lines of which none parsed.
C11_Witness ==
    /\ pc = "exit1"
    /\ files # <<>>
    /\ totalLines = 2
    /\ totalParsed = 0
    /\ ~output.written

(***************************************************************************)
(* downsample: what a finished call returned, stated from its arguments.   *)
(***************************************************************************)
Returned(f) == f.pc = "done"

\* the window size: the least w with w * target >= len
WindowSize(len, target) == CHOOSE w \in 0..len : w * target >= len /\ (w - 1) * target < len

\* the number of windows of size w that cover len rows
WindowCount(len, w) == CHOOSE k \in 0..len : k * w >= len /\ (k - 1) * w < len

RECURSIVE WindowSum(_, _, _, _)
WindowSum(rows, lo, hi, c) ==
    IF lo > hi THEN 0 ELSE rows[lo][c] + WindowSum(rows, lo + 1, hi, c)

\* r is the mean sum / n rounded to the nearest integer, halves upwards
IsRoundedMean(r, sum, n) == 2 * r * n <= 2 * sum + n /\ 2 * sum + n < 2 * (r + 1) * n

\* C12: a call with len(rows) <= targetCount returns the rows unchanged,
\* in the same order and with the same values, and leaves its argument as
\* it was passed; in both implementations.
C12_DownsampleIdentity ==
    \A f \in {ds, bvb} :
        (Returned(f) /\ Len(f.input) <= f.targetPoints) =>
            (f.result = f.input /\ f.data = f.input)

C12_Witness ==
    /\ Returned(ds) /\ Returned(bvb)
    /\ Len(ds.input) = 2 /\ ds.targetPoints = 3
    /\ ds.input[1] # ds.input[2]
    /\ ds.result = ds.input /\ bvb.result = bvb.input

\* the windowed mean law for one finished call
WindowedMean(f) ==
    LET n == Len(f.input)
        w == WindowSize(n, f.targetPoints)
        k == WindowCount(n, w)
    IN  /\ Len(f.result) = k
        /\ \A j \in 1..k :
             LET lo == (j - 1) * w + 1
                 hi == Min(j * w, n)
             IN  /\ Len(f.result[j]) = Len(f.input[1])
                 /\ \A c \in 1..Len(f.input[1]) :
                      IsRoundedMean(f.result[j][c],
                                    WindowSum(f.input, lo, hi, c), hi - lo + 1)

\* C13: for len(rows) > targetCount >= 1 the ip-location downsample cuts
\* the rows into consecutive windows of ceil(len/targetCount) rows, the
\* last possibly shorter, and returns per window, in order, the row of the
\* column means rounded half-up, column 0 included; the rows
\* [[0,10],[1,20],[2,30],[3,40]] with target 2 give [[1,15],[3,35]].
C13_WindowedMean ==
    /\ (Returned(ds) /\ Len(ds.input) > ds.targetPoints) => WindowedMean(ds)
    /\ (Returned(ds) /\ ds.input = ExampleRows /\ ds.targetPoints = 2) =>
           ds.result = <<<<1, 15>>, <<3, 35>>>>

C13_Witness ==
    /\ Returned(ds) /\ ds.input = ExampleRows /\ ds.targetPoints = 2
    /\ ds.result = <<<<1, 15>>, <<3, 35>>>>

\* C14: for len(rows) > targetCount >= 1 the output has exactly
\* ceil(len/windowSize) rows, windowSize = ceil(len/targetCount), and that
\* is at most targetCount; in both implementations, for rows of 2, 3 and
\* 4 columns.
C14_OutputLength ==
    \A f \in {ds, bvb} :
        (Returned(f) /\ Len(f.input) > f.targetPoints) =>
            /\ Len(f.input[1]) \in {2, 3, 4}
            /\ Len(f.result) =
                   WindowCount(Len(f.input), WindowSize(Len(f.input), f.targetPoints))
            /\ Len(f.result) <= f.targetPoints

C14_Witness ==
    /\ Returned(ds) /\ Len(ds.input) = 3 /\ ds.targetPoints = 2
    /\ Len(ds.input[1]) = 4 /\ Len(ds.result) = 2

\* C15: given the same rows of three columns and the same targetCount the
\* bot-vs-browser downsample and the ip-location downsample return the same
\* output, and the ip-location one returns rows as wide as its input rows
\* whatever their width.
C15_WidthAgnostic ==
    /\ (Returned(ds) /\ Returned(bvb)) =>
           (bvb.input = ds.input /\ bvb.targetPoints = ds.targetPoints
            /\ bvb.result = ds.result)
    /\ Returned(ds) =>
           \A j \in DOMAIN ds.result : Len(ds.result[j]) = Len(ds.input[1])

C15_Witness ==
    /\ Returned(ds) /\ Returned(bvb)
    /\ Len(ds.input) = 3 /\ ds.targetPoints = 2 /\ Len(ds.input[1]) = 3
    /\ ds.input[1][1] = 0 /\ ds.input[2][1] = 1
    /\ bvb.result = ds.result /\ ds.result[1][1] = 1

(***************************************************************************)
(* Statistics.                                                             *)
(***************************************************************************)
Exported == stats.pc = "given" /\ stats.output.written

\* C16: peak_minute is a minute with the maximum number of requests, and
\* of the minutes that share the maximum it is the first in ascending key
\* order; counts T0:5, T1:9, T2:9 give T1.
C16_PeakTieBreak ==
    Exported =>
        LET md == stats.minuteData
            peak == stats.output.statistics.peak_minute
        IN  /\ peak \in DOMAIN md
            /\ \A m \in DOMAIN md : md[m].requests <= md[peak].requests
            /\ \A m \in DOMAIN md :
                   md[m].requests = md[peak].requests => ~LexLess(m, peak)
            /\ stats.output.statistics.peak_requests = md[peak].requests

C16_Witness ==
    /\ Exported
    /\ DOMAIN stats.minuteData = StatsMinutes
    /\ stats.minuteData[MinuteAt(0)].requests = 5
    /\ stats.minuteData[MinuteAt(1)].requests = 9
    /\ stats.minuteData[MinuteAt(2)].requests = 9
    /\ stats.output.statistics.peak_minute = MinuteAt(1)

\* p hundredths is an integer nearest to count * 10000 / total
NearestHundredth(p, count, total) ==
    /\ 2 * (p * total - count * 10000) <= total
    /\ 2 * (count * 10000 - p * total) <= total

\* C17: every percentage is count / total rounded to the nearest hundredth,
\* entry by entry, and nothing makes the percentages add up to 100: three
\* counts of 1 out of 3 give 33.33 each.  The traffic country totals take
\* it of totalRequests, the bot countries of the number of the bot's IPs.
C17_PercentageRounding ==
    /\ Exported =>
         \A code \in DOMAIN stats.countryTotals :
            LET entry == stats.output.statistics.country_totals[code]
                total == stats.output.statistics.total_requests
            IN  /\ entry.count = stats.countryTotals[code]
                /\ NearestHundredth(entry.percentage, entry.count, total)
                /\ (entry.count = 1 /\ total = 3) => entry.percentage = 3333
    /\ (stats.pc = "given" /\ stats.botDone) =>
         /\ Len(stats.countryPercentages) = Cardinality(DOMAIN stats.countryTotals)
         /\ \A e \in DOMAIN stats.countryPercentages :
               LET entry == stats.countryPercentages[e]
                   total == SumOver(stats.countryTotals, DOMAIN stats.countryTotals)
               IN  /\ entry.code \in DOMAIN stats.countryTotals
                   /\ entry.count = stats.countryTotals[entry.code]
                   /\ NearestHundredth(entry.percentage, entry.count, total)
                   /\ (entry.count = 1 /\ total = 3) => entry.percentage = 3333

C17_Witness ==
    /\ Exported /\ stats.botDone
    /\ stats.output.statistics.total_requests = 3
    /\ DOMAIN stats.countryTotals = {"US", "BR", "Unknown"}
    /\ \A code \in DOMAIN stats.countryTotals :
          /\ stats.countryTotals[code] = 1
          /\ stats.output.statistics.country_totals[code].percentage = 3333
          /\ \E e \in DOMAIN stats.countryPercentages :
                /\ stats.countryPercentages[e].code = code
                /\ stats.countryPercentages[e].percentage = 3333

(***************************************************************************)
(* Bot enrichment.                                                         *)
(***************************************************************************)
\* C18: during one enrichment run the lookup is invoked at most once for
\* each distinct IP, also when the IP is listed under several bots.
C18_BotLookupOncePerIp ==
    bots.pc \in {"bot", "await", "written"} =>
        \A ip \in DOMAIN bots.calls : bots.calls[ip] <= 1

(***************************************************************************)
(* Minute keys.                                                            *)
(***************************************************************************)
\* the calendar minute of a valid date
MinuteOf(dt) == <<dt.year, dt.month, dt.date, dt.hours, dt.minutes>>

\* calendar minute x is before calendar minute y
RECURSIVE Precedes(_, _)
Precedes(x, y) ==
    /\ x # <<>>
    /\ \/ Head(x) < Head(y)
       \/ Head(x) = Head(y) /\ Precedes(Tail(x), Tail(y))

\* C19: for two parsed timestamps a and b that name calendar minutes, the
\* minute key of a is lexicographically less than the minute key of b
\* exactly when the minute of a is before the minute of b; so the same
\* minute gives the same key and different minutes give different keys.
C19_MinuteKeysPreserveOrder ==
    (keys.pc = "keyed" /\ keys.dtA.valid /\ keys.dtB.valid) =>
        /\ LexLess(keys.keyA, keys.keyB)
               <=> Precedes(MinuteOf(keys.dtA), MinuteOf(keys.dtB))
        /\ (keys.keyA = keys.keyB) <=> (MinuteOf(keys.dtA) = MinuteOf(keys.dtB))

(***************************************************************************)
(* The bot table.                                                          *)
(***************************************************************************)
\* this step is a call of toggleSort
ToggleStep == table.pc = "table" /\ table'.pc = "table" /\ table'.trail # table.trail

\* C20: the table starts sorted by count, descending.  A call
\* toggleSort(key) leaves sortKey = key; when key was the sort key already
\* it negates sortAsc and changes nothing else, so that two such calls in a
\* row restore the direction; otherwise sortAsc becomes the default of the
\* key, ascending for name and descending for count.
C20_ToggleSort ==
    /\ []((table.pc \in {"setup", "table"} /\ table.trail = <<>>) =>
             (table.sortKey = "count" /\ ~table.sortAsc))
    /\ [][ToggleStep =>
             LET call == table'.trail[Len(table'.trail)]
             IN  /\ call.sortKey = table.sortKey /\ call.sortAsc = table.sortAsc
                 /\ table'.sortKey = call.key
                 /\ table'.rows = table.rows
                 /\ table'.searchQuery = table.searchQuery
                 /\ IF table.sortKey = call.key
                    THEN table'.sortAsc = ~table.sortAsc
                    ELSE table'.sortAsc = (call.key = "name")]_allvars
    /\ []((table.pc = "table" /\ Len(table.trail) = 2) =>
             LET first == table.trail[1]
                 second == table.trail[2]
             IN  (first.key = first.sortKey /\ second.key = first.key) =>
                     (table.sortKey = first.key /\ table.sortAsc = first.sortAsc))

C20_Witness ==
    /\ table.pc = "table" /\ Len(table.trail) = 2
    /\ table.trail[1] = [key |-> "name", sortKey |-> "count", sortAsc |-> TRUE]
    /\ table.trail[2] = [key |-> "name", sortKey |-> "name", sortAsc |-> TRUE]
    /\ table.sortKey = "name" /\ ~table.sortAsc
    /\ Len(table.shown) = 2

(***************************************************************************)
(* Traffic aggregation: the counters between the listeners' steps.         *)
(***************************************************************************)
\* the listeners of minute k that wait for their lookup
PendingOf(k) == {p \in pending : p.minuteKey = k}

\* C21: in every state, for every minute bucket, the country counts sum to
\* at most the requests, and what is missing is the number of parsed lines
\* of that minute whose lookup has started and has not completed; so the
\* requests minus the counts of any set of the bucket's countries are never
\* negative.
C21_PendingDifference ==
    \A k \in DOMAIN minuteData :
        LET b == minuteData[k]
        IN  /\ SumMap(b.countries) <= b.requests
            /\ b.requests - SumMap(b.countries) = Cardinality(PendingOf(k))
            /\ \A K \in SUBSET DOMAIN b.countries :
                   b.requests - SumOver(b.countries, K) >= 0

C21_Witness ==
    \E k \in DOMAIN minuteData :
        /\ minuteData[k].requests = 2
        /\ SumMap(minuteData[k].countries) = 1
        /\ Cardinality(PendingOf(k)) = 1
        /\ pc = "written"

\* parsedCount over all files so far: main has added the counts of the
\* files that are closed
ParsedSoFar == IF pc = "files" THEN totalParsed + parsedCount ELSE totalParsed

\* C22: between the listeners' steps, whatever lookups are pending, the
\* status_codes of every bucket sum to its requests, statusTotals sums to
\* the parsedCount so far, and so do the requests of all buckets; in the
\* output total_requests equals parsed_lines.
C22_CountersBeforeSuspension ==
    /\ \A k \in DOMAIN minuteData :
           SumOver(minuteData[k].status_codes, DOMAIN minuteData[k].status_codes)
               = minuteData[k].requests
    /\ SumOver(statusTotals, DOMAIN statusTotals) = ParsedSoFar
    /\ SumOver([k \in DOMAIN minuteData |-> minuteData[k].requests],
               DOMAIN minuteData) = ParsedSoFar
    /\ output.written =>
           output.statistics.total_requests = output.metadata.parsed_lines

C22_Witness ==
    /\ pc = "written" /\ pending # {}
    /\ ParsedSoFar = 2
    /\ Cardinality(DOMAIN statusTotals) = 2
    /\ output.statistics.total_requests = 2
    /\ output.metadata.parsed_lines = 2

\* C23: every IP of a processed bot is counted once: the counts of its
\* geo.countries sum to the length of its ips, a result without a country,
\* no result and a throwing lookup counting under Unknown; and
\* failed_geo_lookups is the number of IPs, over all bots, whose lookup
\* gave no result or threw, at most total_ips_processed.
C23_BotCountsEveryIp ==
    bots.pc \in {"bot", "await", "written"} =>
        /\ \A b \in DOMAIN bots.geo :
               SumEntries(bots.geo[b].countries) = Len(bots.botSummary[b])
        /\ bots.failedLookups = bots.noResult
        /\ bots.written =>
               /\ bots.metadata.failed_geo_lookups = bots.noResult
               /\ bots.metadata.total_ips_processed = bots.totalIPs
               /\ bots.metadata.failed_geo_lookups
                      <= bots.metadata.total_ips_processed

C23_Witness ==
    /\ bots.pc = "written"
    /\ bots.botSummary = <<<<"5.6.7.8", "1.2.3.4">>>>
    /\ bots.geo[1].countries =
           <<[code |-> "Unknown", name |-> "Unknown", count |-> 2,
              percentage |-> 10000]>>
    /\ bots.geo[1].top_cities # <<>>
    /\ bots.metadata.failed_geo_lookups = 1

\* the ips of all bots, in input order
RECURSIVE AllIps(_)
AllIps(botSummary) ==
    IF botSummary = <<>> THEN <<>>
    ELSE Head(botSummary) \o AllIps(Tail(botSummary))

\* lookups invoked and not yet settled
InFlight == Len(bots.trace) - bots.done

\* C24: bot enrichment is sequential: at most one lookup is in flight, the
\* bots and their IPs are looked up in input order, and the output is
\* written only when the lookup of every IP of every bot has completed,
\* with processedIPs = totalIPs.
C24_BotsSequential ==
    bots.pc \in {"bot", "await", "written"} =>
        /\ InFlight \in {0, 1}
        /\ InFlight = 1 <=> bots.pc = "await"
        /\ bots.processedIPs = Len(bots.trace)
        /\ bots.trace = SubSeq(AllIps(bots.botSummary), 1, Len(bots.trace))
        /\ Len(bots.geo) <= Len(bots.botSummary)
        /\ bots.written =>
               /\ bots.done = bots.totalIPs
               /\ bots.processedIPs = bots.totalIPs
               /\ bots.trace = AllIps(bots.botSummary)
               /\ Len(bots.geo) = Len(bots.botSummary)

C24_Witness ==
    /\ bots.pc = "written"
    /\ bots.botSummary = <<<<"5.6.7.8", "1.2.3.4">>, <<"1.2.3.4">>>>
    /\ bots.trace = <<"5.6.7.8", "1.2.3.4", "1.2.3.4">>
    /\ bots.processedIPs = 3 /\ bots.done = 3

(***************************************************************************)
(* downsample: order and range of what it returns.                         *)
(***************************************************************************)
\* column 0 of rows is strictly increasing and not negative
TimeOrdered(rows) ==
    /\ \A r \in DOMAIN rows : rows[r][1] >= 0
    /\ \A r \in 1..(Len(rows) - 1) : rows[r][1] < rows[r + 1][1]

\* C25: when column 0 of the input is strictly increasing and not negative
\* and len(rows) > targetCount >= 1, column 0 of the output is strictly
\* increasing, and every output value lies between the least and the
\* greatest value of its column within its window; in both implementations.
C25_TimeOrderPreserved ==
    \A f \in {ds, bvb} :
        (Returned(f) /\ Len(f.input) > f.targetPoints /\ f.targetPoints >= 1
         /\ TimeOrdered(f.input)) =>
            LET n == Len(f.input)
                w == WindowSize(n, f.targetPoints)
            IN  /\ \A j \in 1..(Len(f.result) - 1) :
                       f.result[j][1] < f.result[j + 1][1]
                /\ \A j \in DOMAIN f.result : \A c \in DOMAIN f.result[j] :
                       LET window == ((j - 1) * w + 1)..Min(j * w, n)
                       IN  /\ \E r \in window : f.input[r][c] <= f.result[j][c]
                           /\ \E r \in window : f.result[j][c] <= f.input[r][c]

C25_Witness ==
    /\ Returned(ds) /\ Returned(bvb)
    /\ Len(ds.input) = 3 /\ ds.targetPoints = 2
    /\ TimeOrdered(ds.input)
    /\ ds.input[1][2] # ds.input[2][2]
    /\ ds.result[1][1] = 1 /\ ds.result[2][1] = 2
    /\ bvb.result[1][1] = 1 /\ bvb.result[2][1] = 2

\* what holds of a call inside its loop
LoopAdvances(f) ==
    f.pc = "loop" =>
        /\ f.ratio >= 1
        /\ f.i = Len(f.result) * f.ratio
        /\ f.i < Len(f.data) + f.ratio
        /\ f.i < Len(f.data) => Len(Chunk(f.data, f.i, f.ratio)) >= 1

\* C26: downsample terminates for every finite row sequence and every
\* targetCount >= 1: inside the loop the window size is at least 1, the index
\* is the number of windows averaged times the window size, every window
\* averaged is non-empty, and every call returns, after
\* ceil(len/windowSize) iterations.
C26_DownsampleTerminates ==
    /\ [](LoopAdvances(ds) /\ LoopAdvances(bvb))
    /\ []((Returned(ds) /\ Len(ds.input) > ds.targetPoints) =>
             Len(ds.result) = WindowCount(Len(ds.input), ds.ratio))
    /\ []((Returned(bvb) /\ Len(bvb.input) > bvb.targetPoints) =>
             Len(bvb.result) = WindowCount(Len(bvb.input), bvb.ratio))
    /\ (ds.pc = "entry") ~> Returned(ds)
    /\ (bvb.pc = "entry") ~> Returned(bvb)

C26_Witness ==
    /\ Returned(ds) /\ Returned(bvb)
    /\ Len(ds.input) = 3 /\ ds.targetPoints = 1
    /\ ds.ratio = 3 /\ ds.i = 3 /\ Len(ds.result) = 1
    /\ bvb.ratio = 3 /\ bvb.i = 3

====
